---- MODULE Spec2Model ----
(***************************************************************************)
(* Scheduling / assignment engine of the elementary-school database:       *)
(*   addClass (createClass), fillClass, requestTimeOff (submitTimeOff)     *)
(*   and suggestSubstitutes, as state machines over the tables they read   *)
(*   and write.  The SQL of every prepared statement is written out as an  *)
(*   operator over the table it queries.                                   *)
(***************************************************************************)
EXTENDS Integers, Sequences, FiniteSets, TLC

VARIABLES
    class,            \* table class: set of rows
    class_id_seq,     \* the serial sequence of class.id: [last_value, is_called]
    StudentToClass,   \* table StudentToClass, rows in insertion (heap) order
    StaffToClass,     \* table StaffToClass, rows in insertion (heap) order
    TimeOffRequest,   \* table TimeOffRequest, rows in insertion (heap) order
    last,             \* the call that ended last: its inputs, its outcome, the table before it
    proc              \* concurrent callers: each one's position in retrieveOutput and its locals

vars == <<class, class_id_seq, StudentToClass, StaffToClass, TimeOffRequest, last, proc>>

(***************************************************************************)
(* Bounds of the model.                                                    *)
(***************************************************************************)
MaxClasses == 2      \* rows addClass may add to class
MaxRequests == 2     \* rows requestTimeOff may add to TimeOffRequest
MaxDate == 2         \* dates are 1..MaxDate
MaxRangeDate == 4    \* dates of the ranges the overlap condition is evaluated on

(***************************************************************************)
(* SQL types.  A value of type time is a time of day counted in half       *)
(* hours, 0 .. DayLen-1; an interval is a number of half hours.            *)
(***************************************************************************)
DayLen == 48

NULL == 0

\* 09:00, 09:30, 10:00, 22:00, 23:00
StartTimes == {18, 19, 20, 44, 46}

\* 00:30, 01:00, 03:00
Durations == {1, 2, 6}

\* time + interval -> time: PostgreSQL reduces the sum modulo 24 hours.
TimePlus(t, d) == (t + d) % DayLen

(***************************************************************************)
(* Reference data (never written by the engine).                           *)
(***************************************************************************)
Rooms == {"R100", "R200"}

\* ClassType.ID, a varchar, as its sequence of characters.
CT_1HR == <<"1", "H", "R">>
CT_1MATH == <<"1", "M", "A", "T", "H">>
CT_2HR == <<"2", "H", "R">>

ClassTypes == {CT_1HR, CT_1MATH, CT_2HR}

\* 'C' || id
ClassNumber(id) == <<"C", id>>

NoCall == [op |-> "none"]

(***************************************************************************)
(* addClass                                                                *)
(***************************************************************************)

RoomConflictsUnstaffed(tbl, room, start, dur) ==
    {c \in tbl : c.RoomNumber = room
                 /\ start < TimePlus(c.StartTime, c.Duration)
                 /\ c.StartTime < TimePlus(start, dur)
                 /\ \A i \in DOMAIN StaffToClass : StaffToClass[i].ClassID # c.ID}

\* check_room_availability_plan: the rows it selects.
RoomConflicts(tbl, room, start, dur) ==
    {c \in tbl : c.RoomNumber = room
                 /\ start < TimePlus(c.StartTime, c.Duration)
                 /\ c.StartTime < TimePlus(start, dur)}

MaxId(tbl) == IF tbl = {} THEN 0
              ELSE CHOOSE m \in {c.ID : c \in tbl} : \A c \in tbl : c.ID =< m

\* A reset that always restarts the sequence at 1.
SetvalClassSeqRestart(tbl) == [last_value |-> 1, is_called |-> FALSE]

\* setval(pg_get_serial_sequence('class','id'), COALESCE(max(id), 0) + 1, false)
SetvalClassSeq(tbl) == [last_value |-> MaxId(tbl) + 1, is_called |-> FALSE]

\* nextval: the value handed out, and the sequence after it.
NextvalValue(seq) == IF seq.is_called THEN seq.last_value + 1 ELSE seq.last_value

NextvalSeq(seq) == [last_value |-> NextvalValue(seq), is_called |-> TRUE]

\* insert_class_plan_v5: the row it inserts.
NewClassRow(id, type, room, start, dur) ==
    [ID |-> id, Number |-> ClassNumber(id), ClassTypeID |-> type,
     RoomNumber |-> room, StartTime |-> start, Duration |-> dur]

\* An insert that leaves the new row alone in the table.
InsertClassReplacing(tbl, row) == {row}

\* insert_class_plan_v5: INSERT INTO class adds the row to the table.
InsertClass(tbl, row) == tbl \cup {row}

\* addClass.retrieveOutput, one whole call on a working connection.
AddClass(room, type, start, dur) ==
    LET seq0 == SetvalClassSeq(class)
        busy == RoomConflicts(class, room, start, dur)
        id   == NextvalValue(seq0)
        row  == NewClassRow(id, type, room, start, dur)
    IN  /\ IF busy # {}
           THEN /\ class' = class
                /\ class_id_seq' = seq0
                /\ last' = [op |-> "addClass", room |-> room, type |-> type,
                            start |-> start, dur |-> dur,
                            result |-> "RoomUnavailable", number |-> <<>>,
                            pre |-> class]
           ELSE /\ Cardinality(class) < MaxClasses
                /\ class' = InsertClass(class, row)
                /\ class_id_seq' = NextvalSeq(seq0)
                /\ last' = [op |-> "addClass", room |-> room, type |-> type,
                            start |-> start, dur |-> dur,
                            result |-> "Created", number |-> row.Number,
                            pre |-> class]
        /\ UNCHANGED <<StudentToClass, StaffToClass, TimeOffRequest, proc>>

\* PRIMARY KEY of class.ID (the schema is not part of the sources).
ClassIdFree(tbl, id) == \A c \in tbl : c.ID # id

InitTables ==
    /\ class = {}
    /\ class_id_seq = [last_value |-> 1, is_called |-> FALSE]
    /\ StudentToClass = <<>>
    /\ StaffToClass = <<>>
    /\ TimeOffRequest = <<>>
    /\ last = NoCall

Init == InitTables /\ proc = <<>>

NextAddClass ==
    \E room \in Rooms, type \in {CT_1HR, CT_2HR}, start \in StartTimes, dur \in Durations :
        AddClass(room, type, start, dur)

Next == NextAddClass

\* Sequential addClass calls on an initially empty class table.
Spec == Init /\ [][Next]_vars

\* The half-open intervals [startA, startA + durA) and [startB, startB + durB) meet.
TimeOverlaps(startA, durA, startB, durB) ==
    startA < startB + durB /\ startB < startA + durA

\* C1: after any sequence of createClass calls on a schedule without overlaps,
\* no two sessions of one room have overlapping intervals [start, start + duration).
C1_NoRoomOverlap ==
    \A a \in class : \A b \in class :
        (a # b /\ a.RoomNumber = b.RoomNumber)
            => ~TimeOverlaps(a.StartTime, a.Duration, b.StartTime, b.Duration)

\* C3: createClass is rejected with RoomUnavailable if and only if some session
\* already in the room satisfies start < s.start + s.duration and
\* s.start < start + duration.
C3_RejectedIffOverlap ==
    last.op = "addClass" =>
        ((last.result = "RoomUnavailable")
            <=> (\E s \in last.pre :
                    /\ s.RoomNumber = last.room
                    /\ TimeOverlaps(last.start, last.dur, s.StartTime, s.Duration)))

(***************************************************************************)
(* addClass called by two clients at once.  Each client has a connection   *)
(* of its own; a statement sees the rows committed before it started       *)
(* (READ COMMITTED), a sequence is shared and not transactional.           *)
(***************************************************************************)
Procs == {1, 2}

\* 09:00, 09:30, 10:00 with 00:30 or 01:00: no slot of these reaches midnight.
ConcStartTimes == {18, 19, 20}

ConcDurations == {1, 2}

Idle == [pc |-> "idle", room |-> "", type |-> <<>>, start |-> 0, dur |-> 0,
         id |-> 0, result |-> ""]

\* getInput: the caller's arguments.
CallAddClass(p, room, type, start, dur) ==
    /\ proc[p].pc = "idle"
    /\ proc' = [proc EXCEPT ![p] = [pc |-> "setval", room |-> room, type |-> type,
                                    start |-> start, dur |-> dur, id |-> 0,
                                    result |-> ""]]
    /\ UNCHANGED <<class, class_id_seq, StudentToClass, StaffToClass, TimeOffRequest, last>>

\* The setval statement and its commit.
SetvalStep(p) ==
    /\ proc[p].pc = "setval"
    /\ class_id_seq' = SetvalClassSeq(class)
    /\ proc' = [proc EXCEPT ![p].pc = "check"]
    /\ UNCHANGED <<class, StudentToClass, StaffToClass, TimeOffRequest, last>>

\* 1. Check if the room is available.
CheckStep(p) ==
    /\ proc[p].pc = "check"
    /\ IF RoomConflicts(class, proc[p].room, proc[p].start, proc[p].dur) # {}
       THEN proc' = [proc EXCEPT ![p].pc = "done", ![p].result = "RoomUnavailable"]
       ELSE proc' = [proc EXCEPT ![p].pc = "insert"]
    /\ UNCHANGED <<class, class_id_seq, StudentToClass, StaffToClass, TimeOffRequest, last>>

\* 2. The insert statement: nextval, then the row, not yet committed.
InsertStep(p) ==
    /\ proc[p].pc = "insert"
    /\ class_id_seq' = NextvalSeq(class_id_seq)
    /\ IF ClassIdFree(class, NextvalValue(class_id_seq))
       THEN proc' = [proc EXCEPT ![p].pc = "commit", ![p].id = NextvalValue(class_id_seq)]
       ELSE proc' = [proc EXCEPT ![p].pc = "done", ![p].result = "Error"]
    /\ UNCHANGED <<class, StudentToClass, StaffToClass, TimeOffRequest, last>>

\* connection.commit(): the row becomes visible, unless a row with the same ID
\* was committed since (the insert waited for that transaction and then failed).
CommitStep(p) ==
    /\ proc[p].pc = "commit"
    /\ IF ClassIdFree(class, proc[p].id)
       THEN /\ class' = class \cup {NewClassRow(proc[p].id, proc[p].type, proc[p].room,
                                                 proc[p].start, proc[p].dur)}
            /\ proc' = [proc EXCEPT ![p].pc = "done", ![p].result = "Created"]
       ELSE /\ class' = class
            /\ proc' = [proc EXCEPT ![p].pc = "done", ![p].result = "Error"]
    /\ UNCHANGED <<class_id_seq, StudentToClass, StaffToClass, TimeOffRequest, last>>

InitConc == InitTables /\ proc = [p \in Procs |-> Idle]

NextConc ==
    \E p \in Procs :
        \/ \E room \in Rooms, start \in ConcStartTimes, dur \in ConcDurations :
              CallAddClass(p, room, CT_1HR, start, dur)
        \/ SetvalStep(p)
        \/ CheckStep(p)
        \/ InsertStep(p)
        \/ CommitStep(p)

\* Two clients, one addClass call each, their statements interleaved.
SpecConc == InitConc /\ [][NextConc]_vars

\* C2: two concurrent createClass calls for one room and overlapping slots do not
\* both succeed (at most one does; the other is turned away).
C2_AtMostOneSucceeds ==
    \A p \in Procs : \A q \in Procs :
        (/\ p # q
         /\ proc[p].pc = "done" /\ proc[q].pc = "done"
         /\ proc[p].room = proc[q].room
         /\ TimeOverlaps(proc[p].start, proc[p].dur, proc[q].start, proc[q].dur))
            => ~(proc[p].result = "Created" /\ proc[q].result = "Created")

(***************************************************************************)
(* fillClass                                                               *)
(***************************************************************************)

\* Table student: ID, Number, Grade.
Student ==
    { [ID |-> 1, Number |-> "S1", Grade |-> <<"1">>],
      [ID |-> 2, Number |-> "S2", Grade |-> <<"1">>],
      [ID |-> 3, Number |-> "S3", Grade |-> <<"2">>] }

\* Table staff: ID, Number.
Staff ==
    { [ID |-> 1, Number |-> "T1"],
      [ID |-> 2, Number |-> "T2"] }

\* A number no row of staff, student or substitute carries.
UnknownNumber == "X9"

\* get_class_id_plan / get_staff_id_plan / get_student_id_plan: the rows selected.
RowsByNumber(tbl, number) == {r \in tbl : r.Number = number}

\* LEFT(ct.ID, 1)
Left1(str) == IF Len(str) = 0 THEN <<>> ELSE <<str[1]>>

\* ClassTypeID LIKE '%HR%'
LikeHR(str) == \E i \in 1..(Len(str) - 1) : str[i] = "H" /\ str[i + 1] = "R"

\* get_class_details_plan: the derived grade of each row selected.
ClassGrades(number) ==
    {Left1(ct) : ct \in {t \in ClassTypes : \E c \in class : c.Number = number /\ c.ClassTypeID = t}}

HasLink(tbl, row) == \E i \in DOMAIN tbl : tbl[i] = row

\* The exclusion applied only when the target class is itself a homeroom class.
HomeroomElsewhereForHomeroom(s, number) ==
    \E c \in class :
        /\ HasLink(StudentToClass, [StudentID |-> s.ID, ClassID |-> c.ID])
        /\ LikeHR(c.ClassTypeID)
        /\ c.Number # number
        /\ \E t \in class : t.Number = number /\ LikeHR(t.ClassTypeID)

\* The NOT EXISTS subquery of get_eligible_students_plan, for student s.
HomeroomElsewhere(s, number) ==
    \E c \in class :
        /\ HasLink(StudentToClass, [StudentID |-> s.ID, ClassID |-> c.ID])
        /\ LikeHR(c.ClassTypeID)
        /\ c.Number # number

EligibleStudentsGradeOnly(grade, number) ==
    {s \in Student : s.Grade = grade}

EligibleStudentsAnyGrade(grade, number) ==
    {s \in Student : ~HomeroomElsewhere(s, number)}

\* get_eligible_students_plan
EligibleStudents(grade, number) ==
    {s \in Student : s.Grade = grade /\ ~HomeroomElsewhere(s, number)}

\* UNIQUE key of StudentToClass and of StaffToClass: the pair of IDs (the schema is
\* not part of the sources).
LinkKeyTaken(tbl, row) == \E i \in DOMAIN tbl : tbl[i] = row

\* INSERT ... ON CONFLICT DO NOTHING
InsertOnConflictDoNothing(tbl, row) ==
    IF LinkKeyTaken(tbl, row) THEN tbl ELSE Append(tbl, row)

InsertStaffPlanAlways(tbl, staff_id, class_id) ==
    Append(tbl, [StaffID |-> staff_id, ClassID |-> class_id])

\* insert_staff_plan
InsertStaffPlan(tbl, staff_id, class_id) ==
    InsertOnConflictDoNothing(tbl, [StaffID |-> staff_id, ClassID |-> class_id])

InsertStudentPlanAlways(tbl, student_id, class_id) ==
    Append(tbl, [StudentID |-> student_id, ClassID |-> class_id])

\* insert_student_plan
InsertStudentPlan(tbl, student_id, class_id) ==
    InsertOnConflictDoNothing(tbl, [StudentID |-> student_id, ClassID |-> class_id])

\* The orders in which a query without ORDER BY may return the rows S.
RECURSIVE Orders(_)
Orders(S) ==
    IF S = {} THEN {<<>>}
    ELSE UNION {{<<x>> \o rest : rest \in Orders(S \ {x})} : x \in S}

\* Step 6: the loop over the eligible students, in the order the query gave them.
RECURSIVE EnrollAll(_, _, _)
EnrollAll(tbl, students, class_id) ==
    IF students = <<>> THEN tbl
    ELSE EnrollAll(InsertStudentPlan(tbl, Head(students).ID, class_id),
                   Tail(students), class_id)

\* get_class_assignments_plan: the rows of the first SELECT, then those of the
\* second (UNION ALL); the statement has no ORDER BY, so each SELECT gives its
\* rows in whatever order its joins produce them (f and g order the positions of
\* the link rows of the class).
ClassAssignments(stc, sfc, number) ==
    LET ids == {c.ID : c \in RowsByNumber(class, number)}
        stu == SelectSeq(stc, LAMBDA r : r.ClassID \in ids)
        stf == SelectSeq(sfc, LAMBDA r : r.ClassID \in ids)
    IN  { [i \in 1..Len(f) |->
              [number |-> (CHOOSE s \in Student : s.ID = stu[f[i]].StudentID).Number,
               type |-> "student"]]
          \o
          [i \in 1..Len(g) |->
              [number |-> (CHOOSE t \in Staff : t.ID = stf[g[i]].StaffID).Number,
               type |-> "staff"]] :
            f \in Orders(DOMAIN stu), g \in Orders(DOMAIN stf) }

FillResult(class_number, staff_number, result, roster) ==
    [op |-> "fillClass", class_number |-> class_number, staff_number |-> staff_number,
     result |-> result, assignments |-> roster,
     pre |-> [StudentToClass |-> StudentToClass, StaffToClass |-> StaffToClass]]

\* fillClass.retrieveOutput, one whole call on a working connection.
FillClass(class_number, staff_number) ==
    LET classes == RowsByNumber(class, class_number)
        staffs  == RowsByNumber(Staff, staff_number)
    IN  /\ UNCHANGED <<class, class_id_seq, TimeOffRequest, proc>>
        /\ IF classes = {}
           THEN /\ UNCHANGED <<StudentToClass, StaffToClass>>
                /\ last' = FillResult(class_number, staff_number, "ClassNotFound", <<>>)
           ELSE IF staffs = {}
           THEN /\ UNCHANGED <<StudentToClass, StaffToClass>>
                /\ last' = FillResult(class_number, staff_number, "StaffNotFound", <<>>)
           ELSE \E c \in classes, t \in staffs :
                  LET sfc == InsertStaffPlan(StaffToClass, t.ID, c.ID)
                  IN  /\ StaffToClass' = sfc
                      /\ IF ClassGrades(class_number) = {}
                         THEN /\ UNCHANGED StudentToClass
                              /\ last' = FillResult(class_number, staff_number,
                                                    "NoClassDetails", <<>>)
                         ELSE \E grade \in ClassGrades(class_number) :
                              \E order \in Orders(EligibleStudents(grade, class_number)) :
                                LET stc == EnrollAll(StudentToClass, order, c.ID)
                                IN  /\ StudentToClass' = stc
                                    /\ \E roster \in ClassAssignments(stc, sfc, class_number) :
                                          last' = FillResult(class_number, staff_number,
                                                             "Filled", roster)

\* The schedule fillClass works on: two homerooms of grade 1 and a grade-1 math class.
FillClasses ==
    { NewClassRow(1, CT_1HR, "R100", 18, 2),
      NewClassRow(2, CT_1HR, "R200", 18, 2),
      NewClassRow(3, CT_1MATH, "R100", 20, 2) }

InitFill ==
    /\ class = FillClasses
    /\ class_id_seq = [last_value |-> 3, is_called |-> TRUE]
    /\ StudentToClass = <<>>
    /\ StaffToClass = <<>>
    /\ TimeOffRequest = <<>>
    /\ last = NoCall
    /\ proc = <<>>

NextFill ==
    \E class_number \in {c.Number : c \in FillClasses} \cup {ClassNumber(9)},
       staff_number \in {t.Number : t \in Staff} \cup {UnknownNumber} :
        FillClass(class_number, staff_number)

\* Sequential fillClass calls on a schedule of three classes, nobody enrolled yet.
SpecFill == InitFill /\ [][NextFill]_vars

\* The homeroom classes student s is enrolled in.
HomeroomsOf(s) ==
    {c \in class : /\ LikeHR(c.ClassTypeID)
                   /\ HasLink(StudentToClass, [StudentID |-> s.ID, ClassID |-> c.ID])}

\* C4: after any sequence of fillClass calls every student holds at most one
\* enrollment in a homeroom-type class.
C4_AtMostOneHomeroom ==
    \A s \in Student : Cardinality(HomeroomsOf(s)) =< 1

\* fillClass ran on a homeroom class while a student of its grade was enrolled in
\* another homeroom.
C4_Witness ==
    /\ last.op = "fillClass" /\ last.result = "Filled"
    /\ \E c \in class, s \in Student :
          /\ c.Number = last.class_number
          /\ LikeHR(c.ClassTypeID)
          /\ s.Grade = Left1(c.ClassTypeID)
          /\ \E h \in HomeroomsOf(s) : h # c

(***************************************************************************)
(* requestTimeOff and suggestSubstitutes                                   *)
(***************************************************************************)

\* Table Substitute: ID, Number, FirstName, LastName.
Substitute ==
    { [ID |-> 1, Number |-> "SUB1", FirstName |-> "Ann", LastName |-> "Lee"],
      [ID |-> 2, Number |-> "SUB2", FirstName |-> "Bob", LastName |-> "Lee"],
      [ID |-> 3, Number |-> "SUB3", FirstName |-> "Bob", LastName |-> "Lee"] }

\* Table Availability: ID, SubstituteID, StartDate, EndDate.  SUB1 has one interval
\* per day; SUB2 has one interval over days 1 and 2 and a second one on day 2;
\* SUB3, who carries the same name as SUB2, has one interval on day 1.
Availability ==
    { [ID |-> 1, SubstituteID |-> 1, StartDate |-> 1, EndDate |-> 1],
      [ID |-> 2, SubstituteID |-> 1, StartDate |-> 2, EndDate |-> 2],
      [ID |-> 3, SubstituteID |-> 2, StartDate |-> 1, EndDate |-> 2],
      [ID |-> 4, SubstituteID |-> 2, StartDate |-> 2, EndDate |-> 2],
      [ID |-> 5, SubstituteID |-> 3, StartDate |-> 1, EndDate |-> 1] }

Dates == 1..MaxDate

\* The date ranges a caller asks about: closed intervals [start, end], start <= end.
DateRanges == {r \in Dates \X Dates : r[1] =< r[2]}

Reasons == {"leave"}

\* The collation order of the names in the reference data.
NameOrder == <<"Ann", "Bob", "Lee">>

NameRank(n) == CHOOSE i \in DOMAIN NameOrder : NameOrder[i] = n

SetOf(sq) == {sq[i] : i \in DOMAIN sq}

CoveringRowsByOverlap(substitute_id, start, end) ==
    {a \in Availability : /\ a.SubstituteID = substitute_id
                          /\ a.StartDate =< end
                          /\ a.EndDate >= start}

\* check_substitute_availability_plan: the rows it counts.  suggest_subs_assigned_plan
\* joins the same rows to the substitute.
CoveringRows(substitute_id, start, end) ==
    {a \in Availability : /\ a.SubstituteID = substitute_id
                          /\ a.StartDate =< start
                          /\ a.EndDate >= end}

TimeOffRowWithoutSubstitute(id, start, end, reason, staff_id, substitute_id) ==
    [ID |-> id, StartDate |-> start, EndDate |-> end, Reason |-> reason,
     StaffID |-> staff_id, SubstituteID |-> NULL]

\* insert_time_off_request_plan: the row it inserts.
TimeOffRow(id, start, end, reason, staff_id, substitute_id) ==
    [ID |-> id, StartDate |-> start, EndDate |-> end, Reason |-> reason,
     StaffID |-> staff_id, SubstituteID |-> substitute_id]

TimeOffResult(staff_number, start, end, reason, substitute_number, result, request_id) ==
    [op |-> "requestTimeOff", staff_number |-> staff_number, start |-> start, end |-> end,
     reason |-> reason, substitute_number |-> substitute_number,
     result |-> result, request_id |-> request_id, pre |-> TimeOffRequest]

\* requestTimeOff.retrieveOutput, one whole call on a working connection.
\* substitute_number "" is the caller naming no substitute.
RequestTimeOff(staff_number, start, end, reason, substitute_number) ==
    LET staffs == RowsByNumber(Staff, staff_number)
        subs   == RowsByNumber(Substitute, substitute_number)
        Reject(why) ==
            /\ TimeOffRequest' = TimeOffRequest
            /\ last' = TimeOffResult(staff_number, start, end, reason,
                                     substitute_number, why, NULL)
        Create(staff_id, substitute_id) ==
            LET id == Len(TimeOffRequest) + 1
            IN  /\ TimeOffRequest' = Append(TimeOffRequest,
                        TimeOffRow(id, start, end, reason, staff_id, substitute_id))
                /\ last' = TimeOffResult(staff_number, start, end, reason,
                                         substitute_number, "Created", id)
    IN  /\ Len(TimeOffRequest) < MaxRequests
        /\ UNCHANGED <<class, class_id_seq, StudentToClass, StaffToClass, proc>>
        /\ IF staffs = {} THEN Reject("StaffNotFound")
           ELSE \E t \in staffs :
                  IF substitute_number = "" THEN Create(t.ID, NULL)
                  ELSE IF subs = {} THEN Reject("SubstituteNotFound")
                  ELSE \E sub \in subs :
                         IF Cardinality(CoveringRows(sub.ID, start, end)) = 0
                         THEN Reject("SubstituteUnavailable")
                         ELSE Create(t.ID, sub.ID)

RequestMatchesEndpointsOnly(r, start, end) ==
    \/ (r.StartDate >= start /\ r.StartDate =< end)
    \/ (r.EndDate >= start /\ r.EndDate =< end)

\* The WHERE condition on the dates of a TimeOffRequest row in
\* suggest_subs_timeoff_request_plan and in the subquery of suggest_subs_available_plan.
RequestMatches(r, start, end) ==
    \/ (r.StartDate =< start /\ r.EndDate >= end)
    \/ (r.StartDate >= start /\ r.StartDate =< end)
    \/ (r.EndDate >= start /\ r.EndDate =< end)

\* suggest_subs_timeoff_request_plan
StaffRequests(staff_id, start, end) ==
    {r \in SetOf(TimeOffRequest) : r.StaffID = staff_id /\ RequestMatches(r, start, end)}

\* The subquery of suggest_subs_available_plan.
CommittedSubstitutes(start, end) ==
    {r.SubstituteID : r \in {q \in SetOf(TimeOffRequest) :
                                q.SubstituteID # NULL /\ RequestMatches(q, start, end)}}

\* A row of suggest_subs_assigned_plan or suggest_subs_available_plan as the entry
\* retrieveOutput builds from it.
Entry(sub, a, assigned) ==
    [number |-> sub.Number, first_name |-> sub.FirstName, last_name |-> sub.LastName,
     availability_start |-> a.StartDate, availability_end |-> a.EndDate,
     already_assigned |-> assigned]

AvailableRowsNotExcluding(start, end) ==
    {p \in Substitute \X Availability :
        /\ p[1].ID = p[2].SubstituteID
        /\ p[2].StartDate =< start /\ p[2].EndDate >= end}

\* suggest_subs_available_plan: the rows selected, as pairs (substitute, availability).
AvailableRows(start, end) ==
    {p \in Substitute \X Availability :
        /\ p[1].ID = p[2].SubstituteID
        /\ p[2].StartDate =< start /\ p[2].EndDate >= end
        /\ p[1].ID \notin CommittedSubstitutes(start, end)}

\* ORDER BY s.LastName, s.FirstName
NameLeq(a, b) ==
    \/ NameRank(a.LastName) < NameRank(b.LastName)
    \/ /\ a.LastName = b.LastName
       /\ NameRank(a.FirstName) =< NameRank(b.FirstName)

SortedOrdersUnsorted(rows) == Orders(rows)

\* The orders in which the sorted query may return its rows (ties in any order).
SortedOrders(rows) ==
    {f \in Orders(rows) : \A i \in 1..(Len(f) - 1) : NameLeq(f[i][1], f[i + 1][1])}

SuggestResult(staff_number, start, end, branch, substitutes) ==
    [op |-> "suggestSubstitutes", staff_number |-> staff_number, start |-> start,
     end |-> end, branch |-> branch, substitutes |-> substitutes]

SuggestSubstitutesWritingBack(staff_number, start, end) ==
    /\ UNCHANGED <<class, class_id_seq, StudentToClass, StaffToClass, proc>>
    /\ \E order \in SortedOrders(AvailableRows(start, end)) :
          /\ last' = SuggestResult(staff_number, start, end, "available",
                         [i \in 1..Len(order) |-> Entry(order[i][1], order[i][2], FALSE)])
          /\ TimeOffRequest' =
                IF order = <<>> THEN TimeOffRequest
                ELSE [i \in DOMAIN TimeOffRequest |->
                        IF /\ TimeOffRequest[i].SubstituteID = NULL
                           /\ RequestMatches(TimeOffRequest[i], start, end)
                        THEN [TimeOffRequest[i] EXCEPT !.SubstituteID = order[1][1].ID]
                        ELSE TimeOffRequest[i]]

\* suggestSubstitutes.retrieveOutput, one whole call on a working connection.
SuggestSubstitutes(staff_number, start, end) ==
    LET staffs == RowsByNumber(Staff, staff_number)
        ListAvailable ==
            \E order \in SortedOrders(AvailableRows(start, end)) :
                last' = SuggestResult(staff_number, start, end, "available",
                            [i \in 1..Len(order) |-> Entry(order[i][1], order[i][2], FALSE)])
    IN  /\ UNCHANGED <<class, class_id_seq, StudentToClass, StaffToClass,
                       TimeOffRequest, proc>>
        /\ IF staffs = {}
           THEN last' = SuggestResult(staff_number, start, end, "staffNotFound", <<>>)
           ELSE \E t \in staffs :
                  IF StaffRequests(t.ID, start, end) = {}
                  THEN ListAvailable
                  ELSE \E request \in StaffRequests(t.ID, start, end) :   \* fetchone()
                         IF request.SubstituteID = NULL
                         THEN ListAvailable
                         ELSE LET assigned ==
                                    {p \in Substitute \X
                                           CoveringRows(request.SubstituteID, start, end) :
                                        p[1].ID = request.SubstituteID}
                              IN  IF assigned = {}
                                  THEN ListAvailable
                                  ELSE \E p \in assigned :                \* fetchone()
                                         last' = SuggestResult(staff_number, start, end,
                                                    "assigned", <<Entry(p[1], p[2], TRUE)>>)

InitTimeOff == InitTables /\ proc = <<>>

NextTimeOff ==
    \/ \E staff_number \in {t.Number : t \in Staff} \cup {UnknownNumber},
          r \in DateRanges, reason \in Reasons,
          substitute_number \in {"", UnknownNumber} \cup {sub.Number : sub \in Substitute} :
            RequestTimeOff(staff_number, r[1], r[2], reason, substitute_number)
    \/ \E staff_number \in {t.Number : t \in Staff} \cup {UnknownNumber}, r \in DateRanges :
            SuggestSubstitutes(staff_number, r[1], r[2])

\* Sequential requestTimeOff and suggestSubstitutes calls, no request stored yet.
SpecTimeOff == InitTimeOff /\ [][NextTimeOff]_vars

\* The closed date ranges [startA, endA] and [startB, endB] share a day.
DateRangeOverlaps(startA, endA, startB, endB) == startA =< endB /\ startB =< endA

\* Some single Availability interval of the substitute contains [start, end].
IsAvailable(substitute_id, start, end) ==
    \E a \in Availability :
        a.SubstituteID = substitute_id /\ a.StartDate =< start /\ a.EndDate >= end

\* The last call was a requestTimeOff whose staff number resolves to staff row t and
\* whose substitute number resolves to substitute row sub.
LastRequestNamed(t, sub) ==
    /\ last.op = "requestTimeOff"
    /\ t \in Staff /\ t.Number = last.staff_number
    /\ sub \in Substitute /\ sub.Number = last.substitute_number

\* C5: no two stored TimeOffRequests reference the same substitute with overlapping
\* closed date ranges.
C5_NoDoubleBooking ==
    \A i \in DOMAIN TimeOffRequest : \A j \in DOMAIN TimeOffRequest :
        (/\ i # j
         /\ TimeOffRequest[i].SubstituteID # NULL
         /\ TimeOffRequest[i].SubstituteID = TimeOffRequest[j].SubstituteID)
            => ~DateRangeOverlaps(TimeOffRequest[i].StartDate, TimeOffRequest[i].EndDate,
                                  TimeOffRequest[j].StartDate, TimeOffRequest[j].EndDate)

\* C6: a submitTimeOff naming a substitute whom an earlier request of another staff
\* member holds for an overlapping date range fails with SubstituteUnavailable.
C6_CommittedSubstituteRefused ==
    \A t \in Staff : \A sub \in Substitute :
        (/\ LastRequestNamed(t, sub)
         /\ \E r \in SetOf(last.pre) :
               /\ r.SubstituteID = sub.ID
               /\ r.StaffID # t.ID
               /\ DateRangeOverlaps(r.StartDate, r.EndDate, last.start, last.end))
            => last.result = "SubstituteUnavailable"

C8_SingleIntervalCoverage ==
    \A t \in Staff : \A sub \in Substitute :
        LastRequestNamed(t, sub) =>
            /\ last.result = "Created" => IsAvailable(sub.ID, last.start, last.end)
            /\ ~IsAvailable(sub.ID, last.start, last.end)
                  => last.result = "SubstituteUnavailable"

\* A request was rejected although every day of it lies in some interval of the
\* substitute.
C8_Witness ==
    \E t \in Staff : \E sub \in Substitute :
        /\ LastRequestNamed(t, sub)
        /\ last.result = "SubstituteUnavailable"
        /\ last.start < last.end
        /\ \A d \in last.start..last.end :
              \E a \in Availability :
                 a.SubstituteID = sub.ID /\ a.StartDate =< d /\ d =< a.EndDate

\* Substitute sub is the substitute of a stored request overlapping [start, end].
Committed(sub, start, end) ==
    \E r \in SetOf(TimeOffRequest) :
        /\ r.SubstituteID = sub.ID
        /\ DateRangeOverlaps(r.StartDate, r.EndDate, start, end)

C10_AssignedSubstituteReturned ==
    \A t \in Staff :
        (/\ last.op = "suggestSubstitutes"
         /\ t.Number = last.staff_number
         /\ \E r \in SetOf(TimeOffRequest) :
               /\ r.StaffID = t.ID
               /\ r.SubstituteID # NULL
               /\ DateRangeOverlaps(r.StartDate, r.EndDate, last.start, last.end)
               /\ IsAvailable(r.SubstituteID, last.start, last.end))
            => /\ Len(last.substitutes) = 1
               /\ last.substitutes[1].already_assigned
               /\ \E r \in SetOf(TimeOffRequest) : \E sub \in Substitute :
                     /\ r.StaffID = t.ID
                     /\ r.SubstituteID = sub.ID
                     /\ DateRangeOverlaps(r.StartDate, r.EndDate, last.start, last.end)
                     /\ IsAvailable(sub.ID, last.start, last.end)
                     /\ last.substitutes[1].number = sub.Number

\* (lastName, firstName) of entry e is less than or equal to that of entry f.
EntryNameLeq(e, f) ==
    \/ NameRank(e.last_name) < NameRank(f.last_name)
    \/ /\ e.last_name = f.last_name
       /\ NameRank(e.first_name) =< NameRank(f.first_name)

\* C11: the list suggestSubstitutes returns is in ascending order of
\* (lastName, firstName): each entry's name is at most the next entry's name.
C11_CandidatesOrdered ==
    last.op = "suggestSubstitutes" =>
        \A i \in 1..(Len(last.substitutes) - 1) :
            EntryNameLeq(last.substitutes[i], last.substitutes[i + 1])

\* The list holds two candidates with different names.
C11_Witness ==
    /\ last.op = "suggestSubstitutes"
    /\ \E i \in 1..(Len(last.substitutes) - 1) :
          last.substitutes[i].first_name # last.substitutes[i + 1].first_name

\* C12: a suggestSubstitutes call that follows a suggestSubstitutes call with the
\* same arguments, the stored state being the same, returns the same sequence of
\* candidates, also when two candidates share (lastName, firstName).
C12_RepeatedCallSameList ==
    [][(/\ last.op = "suggestSubstitutes"
        /\ last'.op = "suggestSubstitutes"
        /\ last'.staff_number = last.staff_number
        /\ last'.start = last.start
        /\ last'.end = last.end
        /\ TimeOffRequest' = TimeOffRequest)
            => last'.substitutes = last.substitutes]_vars

\* The two rosters list the same entries, each as many times in one as in the other.
SameMembers(r1, r2) ==
    /\ Len(r1) = Len(r2)
    /\ \A i \in DOMAIN r1 :
          Cardinality({j \in DOMAIN r1 : r1[j] = r1[i]})
            = Cardinality({j \in DOMAIN r2 : r2[j] = r1[i]})

EnrolledIn(stc, c) ==
    {s \in Student : \E i \in DOMAIN stc : stc[i] = [StudentID |-> s.ID, ClassID |-> c.ID]}

\* C14: after a successful fillClass on class c with derived grade g, the students
\* enrolled in c are those enrolled before the call plus every student of grade g
\* who held no enrollment in a homeroom class other than c, and nobody else.
C14_EnrolledExactly ==
    (last.op = "fillClass" /\ last.result = "Filled") =>
        \A c \in class :
            c.Number = last.class_number =>
                EnrolledIn(StudentToClass, c)
                    = EnrolledIn(last.pre.StudentToClass, c)
                      \cup {s \in Student :
                              /\ s.Grade = <<c.ClassTypeID[1]>>
                              /\ \A h \in class :
                                    (h.ID # c.ID /\ LikeHR(h.ClassTypeID))
                                        => s \notin EnrolledIn(last.pre.StudentToClass, h)}

\* A successful fillClass enrolled a student in its class while enrollments in
\* another class existed and a student of another grade stayed out.
C14_Witness ==
    /\ last.op = "fillClass" /\ last.result = "Filled"
    /\ last.pre.StudentToClass # <<>>
    /\ \E c \in class :
          /\ c.Number = last.class_number
          /\ EnrolledIn(StudentToClass, c) # EnrolledIn(last.pre.StudentToClass, c)
          /\ \E s \in Student : s.Grade # <<c.ClassTypeID[1]>>
                                /\ s \notin EnrolledIn(StudentToClass, c)

(***************************************************************************)
(* The date condition of suggest_subs_timeoff_request_plan on its own: it  *)
(* is evaluated on a stored range a against a target range b, and on b     *)
(* against a.                                                              *)
(***************************************************************************)

\* Closed date ranges [StartDate, EndDate], StartDate <= EndDate.
RangeRows ==
    {r \in [StartDate : 1..MaxRangeDate, EndDate : 1..MaxRangeDate] :
        r.StartDate =< r.EndDate}

InitOverlap ==
    /\ class = {}
    /\ class_id_seq = [last_value |-> 1, is_called |-> FALSE]
    /\ StudentToClass = <<>>
    /\ StaffToClass = <<>>
    /\ TimeOffRequest = <<>>
    /\ proc = <<>>
    /\ \E a \in RangeRows, b \in RangeRows : last = [op |-> "ranges", a |-> a, b |-> b]

\* The condition on stored range a and target b, and on stored range b and target a.
ApplyOverlap ==
    /\ last.op = "ranges"
    /\ last' = [op |-> "overlaps", a |-> last.a, b |-> last.b,
                ab |-> RequestMatches(last.a, last.b.StartDate, last.b.EndDate),
                ba |-> RequestMatches(last.b, last.a.StartDate, last.a.EndDate)]
    /\ UNCHANGED <<class, class_id_seq, StudentToClass, StaffToClass, TimeOffRequest, proc>>

NextOverlap == ApplyOverlap

SpecOverlap == InitOverlap /\ [][NextOverlap]_vars

\* C15: the date-range overlap test is symmetric: for all date ranges a and b it
\* gives the same answer for (a, b) and for (b, a).
C15_OverlapSymmetric ==
    last.op = "overlaps" => (last.ab <=> last.ba)

\* The test was applied to a range that strictly contains the other one, and held.
C15_Witness ==
    /\ last.op = "overlaps"
    /\ last.a.StartDate < last.b.StartDate /\ last.b.EndDate < last.a.EndDate
    /\ last.ab

(***************************************************************************)
(* The four operations of the engine called one after another in any       *)
(* order, on one room and one day.                                         *)
(***************************************************************************)

\* 09:00, 09:30
EngineStartTimes == {18, 19}

\* 00:30, 01:00
EngineDurations == {1, 2}

\* Day 1 alone, and days 1 and 2.
EngineRanges == {<<1, 1>>, <<1, 2>>}

NextEngine ==
    \/ \E start \in EngineStartTimes, dur \in EngineDurations :
          AddClass("R100", CT_1HR, start, dur)
    \/ \E id \in 1..MaxClasses : FillClass(ClassNumber(id), "T1")
    \/ \E substitute_number \in {"", "SUB1"} :
          RequestTimeOff("T1", 1, 1, "leave", substitute_number)
    \/ \E staff_number \in {"T1", UnknownNumber}, r \in EngineRanges :
          SuggestSubstitutes(staff_number, r[1], r[2])

SpecEngine == Init /\ [][NextEngine]_vars

\* The last call was createClass(room, start, dur).
CalledAddClass(room, start, dur) ==
    /\ last.op = "addClass"
    /\ last.room = room /\ last.start = start /\ last.dur = dur

\* C16: once createClass(room, start, duration) has been rejected with
\* RoomUnavailable, every later createClass with the same room, start and duration
\* is rejected too, whatever operations run in between.
C16_RejectionPermanent ==
    \A start \in EngineStartTimes : \A dur \in EngineDurations :
        []((CalledAddClass("R100", start, dur) /\ last.result = "RoomUnavailable")
            => [](CalledAddClass("R100", start, dur) => last.result = "RoomUnavailable"))

\* A createClass was rejected for a slot that meets the first session created,
\* after a second session was created, a class was filled and a request was stored.
C16_Witness ==
    /\ last.op = "addClass" /\ last.result = "RoomUnavailable"
    /\ Cardinality(class) = 2
    /\ \E c \in class :
          /\ c.ID = 1 /\ c.RoomNumber = last.room
          /\ TimeOverlaps(last.start, last.dur, c.StartTime, c.Duration)
    /\ StudentToClass # <<>>
    /\ StaffToClass # <<>>
    /\ TimeOffRequest # <<>>

\* C17: suggestSubstitutes is read-only: a step that ends a suggestSubstitutes call,
\* whatever its arguments and its branch, leaves the TimeOffRequest, class,
\* StudentToClass and StaffToClass tables (and the class ID sequence) as they were.
C17_SuggestReadOnly ==
    [][last'.op = "suggestSubstitutes"
          => /\ TimeOffRequest' = TimeOffRequest
             /\ class' = class
             /\ class_id_seq' = class_id_seq
             /\ StudentToClass' = StudentToClass
             /\ StaffToClass' = StaffToClass]_vars

\* suggestSubstitutes ran on stored sessions, enrollments, staff assignments and
\* requests, one of which is a request of the staff member without substitute.
C17_Witness ==
    /\ last.op = "suggestSubstitutes" /\ last.branch = "available"
    /\ last.substitutes # <<>>
    /\ class # {}
    /\ StudentToClass # <<>>
    /\ StaffToClass # <<>>
    /\ \E i \in DOMAIN TimeOffRequest : TimeOffRequest[i].SubstituteID = NULL

(***************************************************************************)
(* fillClass on a connection that may fail.  A statement that fails raises *)
(* an exception; retrieveOutput then rolls back the open transaction and   *)
(* sets error_message.  The staff assignment is committed on its own       *)
(* (step 3); the enrollments of the loop are committed together (step 6).  *)
(***************************************************************************)

\* The statements of retrieveOutput that may fail once both lookups have succeeded.
FailingSteps == {"insert_staff", "class_details", "insert_student", "commit", "assignments"}

\* fillClass.retrieveOutput, one whole call in which the statement `step` fails.
FillClassFails(class_number, staff_number, step) ==
    LET classes == RowsByNumber(class, class_number)
        staffs  == RowsByNumber(Staff, staff_number)
    IN  /\ classes # {} /\ staffs # {}
        /\ UNCHANGED <<class, class_id_seq, TimeOffRequest, proc>>
        /\ last' = FillResult(class_number, staff_number, "StorageError", <<>>)
        /\ \E c \in classes, t \in staffs :
              IF step = "insert_staff"
              THEN UNCHANGED <<StudentToClass, StaffToClass>>
              ELSE /\ StaffToClass' = InsertStaffPlan(StaffToClass, t.ID, c.ID)
                   /\ IF step = "class_details"
                      THEN UNCHANGED StudentToClass
                      ELSE \E grade \in ClassGrades(class_number) :
                           \E order \in Orders(EligibleStudents(grade, class_number)) :
                             CASE step = "insert_student" ->
                                    \* the loop raised: its inserts are rolled back
                                    order # <<>> /\ UNCHANGED StudentToClass
                               [] step = "commit" ->
                                    \* the commit raised: the server may or may not
                                    \* have made the transaction durable
                                    \/ UNCHANGED StudentToClass
                                    \/ StudentToClass' = EnrollAll(StudentToClass, order, c.ID)
                               [] OTHER ->
                                    \* the roster query raised, after the commit
                                    StudentToClass' = EnrollAll(StudentToClass, order, c.ID)

NextFillFault ==
    \/ \E class_number \in {c.Number : c \in FillClasses} :
          FillClass(class_number, "T1")
    \/ \E class_number \in {c.Number : c \in FillClasses}, step \in FailingSteps :
          FillClassFails(class_number, "T1", step)

\* Sequential fillClass calls, each of which may fail at any statement.
SpecFillFault == InitFill /\ [][NextFillFault]_vars

\* The rows of link table tbl are pairwise different.
NoDuplicateRows(tbl) ==
    \A i \in DOMAIN tbl : \A j \in DOMAIN tbl : tbl[i] = tbl[j] => i = j

\* C18: when a fillClass call that failed with a storage error after the staff
\* insert is followed by a successful fillClass call with the same inputs, the
\* stored enrollments and staff assignments are those a single successful call
\* on the tables before the failed call leaves, each row once.
C18_RetryConverges ==
    [][(/\ last.op = "fillClass" /\ last.result = "StorageError"
        /\ last'.op = "fillClass" /\ last'.result = "Filled"
        /\ last'.class_number = last.class_number
        /\ last'.staff_number = last.staff_number)
            => \A c \in class : \A t \in Staff :
                  (c.Number = last.class_number /\ t.Number = last.staff_number)
                      => /\ SetOf(StaffToClass')
                              = SetOf(last.pre.StaffToClass)
                                \cup {[StaffID |-> t.ID, ClassID |-> c.ID]}
                         /\ SetOf(StudentToClass')
                              = SetOf(last.pre.StudentToClass)
                                \cup {[StudentID |-> s.ID, ClassID |-> c.ID] :
                                        s \in {x \in Student :
                                          /\ x.Grade = <<c.ClassTypeID[1]>>
                                          /\ \A h \in class :
                                                (h.ID # c.ID /\ LikeHR(h.ClassTypeID))
                                                    => x \notin EnrolledIn(
                                                           last.pre.StudentToClass, h)}}
                         /\ NoDuplicateRows(StaffToClass')
                         /\ NoDuplicateRows(StudentToClass')]_vars

\* A fillClass succeeded on tables in which an earlier call had left its staff
\* assignment and no enrollment of the class.
C18_Witness ==
    /\ last.op = "fillClass" /\ last.result = "Filled"
    /\ \E c \in class : \E t \in Staff :
          /\ c.Number = last.class_number /\ t.Number = last.staff_number
          /\ [StaffID |-> t.ID, ClassID |-> c.ID] \in SetOf(last.pre.StaffToClass)
          /\ EnrolledIn(last.pre.StudentToClass, c) = {}
          /\ EnrolledIn(StudentToClass, c) # {}

\* C19: the result of a suggestSubstitutes call whose staff number does not resolve
\* can be told apart from the result of a successful call that found no candidate:
\* such a call, made right after a successful call that returned the empty list,
\* does not leave the caller with that same list.
C19_StaffNotFoundDistinct ==
    [][(/\ last.op = "suggestSubstitutes"
        /\ last.branch = "available" /\ last.substitutes = <<>>
        /\ last'.op = "suggestSubstitutes"
        /\ last'.branch = "staffNotFound")
            => last'.substitutes # last.substitutes]_vars

(***************************************************************************)
(* fillClass called by two clients at once.  Each client has a connection  *)
(* of its own; a statement sees the rows committed before it started, and  *)
(* the enrollments of the loop become visible at the commit after it.      *)
(***************************************************************************)

FillIdle == [pc |-> "idle", class_number |-> <<>>, staff_number |-> "", class_id |-> 0,
             eligible |-> <<>>, assignments |-> <<>>, result |-> ""]

\* getInput: the caller's arguments.
CallFillClass(p, class_number, staff_number) ==
    /\ proc[p].pc = "idle"
    /\ proc' = [proc EXCEPT ![p] = [FillIdle EXCEPT !.pc = "assign",
                                                    !.class_number = class_number,
                                                    !.staff_number = staff_number]]
    /\ UNCHANGED <<class, class_id_seq, StudentToClass, StaffToClass, TimeOffRequest, last>>

\* Steps 1 to 3: both lookups, the staff insert and its commit.
AssignStaffStep(p) ==
    LET classes == RowsByNumber(class, proc[p].class_number)
        staffs  == RowsByNumber(Staff, proc[p].staff_number)
    IN  /\ proc[p].pc = "assign"
        /\ UNCHANGED <<class, class_id_seq, StudentToClass, TimeOffRequest, last>>
        /\ IF classes = {}
           THEN /\ proc' = [proc EXCEPT ![p].pc = "done", ![p].result = "ClassNotFound"]
                /\ UNCHANGED StaffToClass
           ELSE IF staffs = {}
           THEN /\ proc' = [proc EXCEPT ![p].pc = "done", ![p].result = "StaffNotFound"]
                /\ UNCHANGED StaffToClass
           ELSE \E c \in classes, t \in staffs :
                  /\ StaffToClass' = InsertStaffPlan(StaffToClass, t.ID, c.ID)
                  /\ proc' = [proc EXCEPT ![p].pc = "eligible", ![p].class_id = c.ID]

\* Steps 4 and 5: the class details and the eligible students, as committed now.
EligibleStep(p) ==
    /\ proc[p].pc = "eligible"
    /\ UNCHANGED <<class, class_id_seq, StudentToClass, StaffToClass, TimeOffRequest, last>>
    /\ IF ClassGrades(proc[p].class_number) = {}
       THEN proc' = [proc EXCEPT ![p].pc = "done", ![p].result = "NoClassDetails"]
       ELSE \E grade \in ClassGrades(proc[p].class_number) :
            \E order \in Orders(EligibleStudents(grade, proc[p].class_number)) :
               proc' = [proc EXCEPT ![p].pc = "enroll", ![p].eligible = order]

\* Steps 6 and 7: the inserts of the loop, their commit and the roster query.
EnrollStep(p) ==
    LET stc == EnrollAll(StudentToClass, proc[p].eligible, proc[p].class_id)
    IN  /\ proc[p].pc = "enroll"
        /\ StudentToClass' = stc
        /\ \E roster \in ClassAssignments(stc, StaffToClass, proc[p].class_number) :
              proc' = [proc EXCEPT ![p].pc = "done", ![p].result = "Filled",
                                   ![p].assignments = roster]
        /\ UNCHANGED <<class, class_id_seq, StaffToClass, TimeOffRequest, last>>

InitFillConc ==
    /\ class = FillClasses
    /\ class_id_seq = [last_value |-> 3, is_called |-> TRUE]
    /\ StudentToClass = <<>>
    /\ StaffToClass = <<>>
    /\ TimeOffRequest = <<>>
    /\ last = NoCall
    /\ proc = [p \in Procs |-> FillIdle]

NextFillConc ==
    \E p \in Procs :
        \/ \E class_number \in {c.Number : c \in FillClasses} \cup {ClassNumber(9)},
              staff_number \in {t.Number : t \in Staff} \cup {UnknownNumber} :
                CallFillClass(p, class_number, staff_number)
        \/ AssignStaffStep(p)
        \/ EligibleStep(p)
        \/ EnrollStep(p)

\* Two clients, one fillClass call each, their statements interleaved.
SpecFillConc == InitFillConc /\ [][NextFillConc]_vars

\* C20: after two concurrent fillClass calls on two different homeroom classes of
\* one grade, no student is enrolled in both classes.
C20_NoStudentInBothHomerooms ==
    \A p \in Procs : \A q \in Procs :
        \A c \in class : \A h \in class :
            (/\ p # q
             /\ proc[p].pc = "done" /\ proc[q].pc = "done"
             /\ c.Number = proc[p].class_number /\ h.Number = proc[q].class_number
             /\ c # h
             /\ LikeHR(c.ClassTypeID) /\ LikeHR(h.ClassTypeID)
             /\ Left1(c.ClassTypeID) = Left1(h.ClassTypeID))
                => EnrolledIn(StudentToClass, c) \cap EnrolledIn(StudentToClass, h) = {}

(***************************************************************************)
(* The same date condition on any four dates: requestTimeOff stores the    *)
(* start and end date it is given, and getInput with arguments passes them *)
(* on, without comparing the two.                                          *)
(***************************************************************************)

\* Pairs of dates (StartDate, EndDate), in either order.
DatePairs == [StartDate : 1..MaxRangeDate, EndDate : 1..MaxRangeDate]

InitDates ==
    /\ class = {}
    /\ class_id_seq = [last_value |-> 1, is_called |-> FALSE]
    /\ StudentToClass = <<>>
    /\ StaffToClass = <<>>
    /\ TimeOffRequest = <<>>
    /\ proc = <<>>
    /\ \E a \in DatePairs, b \in DatePairs : last = [op |-> "ranges", a |-> a, b |-> b]

SpecDates == InitDates /\ [][NextOverlap]_vars

\* C21: the condition applied to a stored request [S, E] (a) and a target
\* [start, end] (b) is true exactly when S <= end and start <= E, for all dates.
C21_ConditionIsOverlap ==
    last.op = "overlaps" =>
        (last.ab <=> (/\ last.a.StartDate =< last.b.EndDate
                      /\ last.b.StartDate =< last.a.EndDate))

\* C22: when an existing or proposed session's start + duration reaches or
\* passes 24:00:00, a proposed slot lying inside that existing session's
\* interval is detected as a conflict and createClass is rejected.
C22_LateSessionConflictDetected ==
    last.op = "addClass" =>
        ((\E s \in last.pre :
            /\ s.RoomNumber = last.room
            /\ (s.StartTime + s.Duration >= DayLen \/ last.start + last.dur >= DayLen)
            /\ s.StartTime =< last.start
            /\ last.start + last.dur =< s.StartTime + s.Duration)
         => last.result = "RoomUnavailable")

\* C23: a successful createClass adds exactly one session, whose ID differs from
\* the ID of every session stored before the call, whose Number is "C" followed by
\* that ID, and which carries the given class type, room, start time and duration;
\* a createClass rejected with RoomUnavailable adds no session.
C23_CreateAddsOneSession ==
    last.op = "addClass" =>
        /\ last.result = "Created" =>
              \E r \in class :
                 /\ r \notin last.pre
                 /\ class = last.pre \cup {r}
                 /\ \A s \in last.pre : s.ID # r.ID
                 /\ r.Number = <<"C", r.ID>>
                 /\ last.number = r.Number
                 /\ r.ClassTypeID = last.type
                 /\ r.RoomNumber = last.room
                 /\ r.StartTime = last.start
                 /\ r.Duration = last.dur
        /\ last.result = "RoomUnavailable" => class = last.pre
        /\ last.result \in {"Created", "RoomUnavailable"}

\* A createClass succeeded on a schedule that already held a session.
C23_Witness ==
    /\ last.op = "addClass" /\ last.result = "Created"
    /\ last.pre # {}
    /\ Cardinality(class) = Cardinality(last.pre) + 1

\* C24: no operation of the engine changes the class type, room, start time or
\* duration of a stored session or removes one: every session of a state is in
\* the next state with the same values.
C24_SessionsOnlyGrow ==
    [][\A c \in class :
          \E d \in class' :
             /\ d.ID = c.ID /\ d.Number = c.Number
             /\ d.ClassTypeID = c.ClassTypeID
             /\ d.RoomNumber = c.RoomNumber
             /\ d.StartTime = c.StartTime
             /\ d.Duration = c.Duration]_vars

\* A second session was created after the first one was filled and a request and a
\* suggestion were made; the first session is still stored.
C24_Witness ==
    /\ last.op = "addClass" /\ last.result = "Created"
    /\ \E c \in last.pre : c.ID = 1 /\ c \in class
    /\ StudentToClass # <<>>
    /\ TimeOffRequest # <<>>

\* Student s holds an enrollment, in table stc, in some homeroom class.
InSomeHomeroom(stc, s) ==
    \E c \in class :
        /\ LikeHR(c.ClassTypeID)
        /\ HasLink(stc, [StudentID |-> s.ID, ClassID |-> c.ID])

\* C25: fillClass on a class that is not a homeroom class enrolls no student of the
\* matching grade who holds an enrollment in any homeroom class.
C25_NonHomeroomTargetExcludes ==
    (last.op = "fillClass" /\ last.result = "Filled") =>
        \A t \in class :
            (t.Number = last.class_number /\ ~LikeHR(t.ClassTypeID)) =>
                \A s \in Student :
                    (s.Grade = Left1(t.ClassTypeID)
                        /\ InSomeHomeroom(last.pre.StudentToClass, s))
                    => (HasLink(StudentToClass, [StudentID |-> s.ID, ClassID |-> t.ID])
                          <=> HasLink(last.pre.StudentToClass,
                                      [StudentID |-> s.ID, ClassID |-> t.ID]))

\* fillClass ran on a non-homeroom class whose grade has a student already placed
\* in a homeroom, and that student is not enrolled in the class.
C25_Witness ==
    /\ last.op = "fillClass" /\ last.result = "Filled"
    /\ \E t \in class :
          /\ t.Number = last.class_number /\ ~LikeHR(t.ClassTypeID)
          /\ \E s \in Student :
                /\ s.Grade = Left1(t.ClassTypeID)
                /\ InSomeHomeroom(last.pre.StudentToClass, s)
                /\ ~HasLink(StudentToClass, [StudentID |-> s.ID, ClassID |-> t.ID])

\* The students enrolled in the class numbered number, then the staff assigned to
\* it, each group in the order of insertion of its link rows.
RosterByInsertion(number) ==
    LET ids == {c.ID : c \in {d \in class : d.Number = number}}
        stu == SelectSeq(StudentToClass, LAMBDA r : r.ClassID \in ids)
        stf == SelectSeq(StaffToClass, LAMBDA r : r.ClassID \in ids)
    IN  [i \in 1..Len(stu) |->
            [number |-> (CHOOSE s \in Student : s.ID = stu[i].StudentID).Number,
             type |-> "student"]]
        \o
        [i \in 1..Len(stf) |->
            [number |-> (CHOOSE t \in Staff : t.ID = stf[i].StaffID).Number,
             type |-> "staff"]]

\* C26: the roster returned by a successful fillClass lists every student enrolled
\* in the class and every staff member assigned to it after the call, each once,
\* students first, and within each role in the order of insertion.
C26_RosterInInsertionOrder ==
    (last.op = "fillClass" /\ last.result = "Filled")
        => last.assignments = RosterByInsertion(last.class_number)

\* C27: each substitute appears at most once in the list returned by
\* suggestSubstitutes, also when several of its Availability intervals cover the
\* target range.
C27_SubstituteListedOnce ==
    last.op = "suggestSubstitutes" =>
        \A i \in DOMAIN last.substitutes : \A j \in DOMAIN last.substitutes :
            last.substitutes[i].number = last.substitutes[j].number => i = j

(***************************************************************************)
(* requestTimeOff and suggestSubstitutes with statements that may fail.    *)
(* Each class keeps one connection (prepared_conn) for all its calls; proc *)
(* holds, per class, the state of the transaction open on that connection: *)
(* after a statement has failed, the server refuses every statement on the *)
(* connection until the transaction is rolled back.                        *)
(***************************************************************************)

\* The statements of requestTimeOff.retrieveOutput after which the call can fail
\* once its inputs were validated.
TimeOffFailingSteps == {"insert", "commit", "request_details"}

InitStorage ==
    /\ InitTables
    /\ proc = [requestTimeOff |-> "ready", suggestSubstitutes |-> "ready"]

\* requestTimeOff.retrieveOutput when the statement named step raises: the except
\* branch rolls back and reports the error.  The rollback undoes an insert that
\* was not committed; once commit() has returned, the row stays.
RequestTimeOffFails(staff_number, start, end, reason, substitute_number, step) ==
    LET staffs == RowsByNumber(Staff, staff_number)
        subs   == RowsByNumber(Substitute, substitute_number)
        id     == Len(TimeOffRequest) + 1
    IN  /\ Len(TimeOffRequest) < MaxRequests
        /\ proc.requestTimeOff = "ready"
        /\ \E t \in staffs :
             \E substitute_id \in
                  IF substitute_number = "" THEN {NULL}
                  ELSE {sub.ID : sub \in {x \in subs :
                                    Cardinality(CoveringRows(x.ID, start, end)) # 0}} :
                /\ TimeOffRequest' =
                      IF step = "request_details"
                      THEN Append(TimeOffRequest,
                                  TimeOffRow(id, start, end, reason, t.ID, substitute_id))
                      ELSE TimeOffRequest
                /\ last' = TimeOffResult(staff_number, start, end, reason, substitute_number,
                                         "StorageError",
                                         IF step = "insert" THEN NULL ELSE id)
        /\ proc' = [proc EXCEPT !.requestTimeOff = "ready"]             \* rollback()
        /\ UNCHANGED <<class, class_id_seq, StudentToClass, StaffToClass>>

\* suggestSubstitutes.retrieveOutput when one of its statements raises: the except
\* branch prints the error and closes the cursor; it does not roll back, and
\* self.substitutes is still the empty list of __init__.
SuggestSubstitutesFails(staff_number, start, end) ==
    /\ proc.suggestSubstitutes = "ready"
    /\ proc' = [proc EXCEPT !.suggestSubstitutes = "aborted"]
    /\ last' = SuggestResult(staff_number, start, end, "storageError", <<>>)
    /\ UNCHANGED <<class, class_id_seq, StudentToClass, StaffToClass, TimeOffRequest>>

\* suggestSubstitutes.retrieveOutput on the connection whose transaction is aborted:
\* its first EXECUTE is refused, and the except branch again leaves the transaction
\* as it is.
SuggestSubstitutesOnAborted(staff_number, start, end) ==
    /\ proc.suggestSubstitutes = "aborted"
    /\ last' = SuggestResult(staff_number, start, end, "transactionAborted", <<>>)
    /\ UNCHANGED <<class, class_id_seq, StudentToClass, StaffToClass, TimeOffRequest, proc>>

NextStorage ==
    \/ \E r \in DateRanges, substitute_number \in {"", "SUB1"} :
          /\ proc.requestTimeOff = "ready"
          /\ RequestTimeOff("T1", r[1], r[2], "leave", substitute_number)
    \/ \E r \in DateRanges, substitute_number \in {"", "SUB1"}, step \in TimeOffFailingSteps :
          RequestTimeOffFails("T1", r[1], r[2], "leave", substitute_number, step)
    \/ \E staff_number \in {"T1", UnknownNumber}, r \in DateRanges :
          /\ proc.suggestSubstitutes = "ready"
          /\ SuggestSubstitutes(staff_number, r[1], r[2])
    \/ \E staff_number \in {"T1", UnknownNumber}, r \in DateRanges :
          SuggestSubstitutesFails(staff_number, r[1], r[2])
    \/ \E staff_number \in {"T1", UnknownNumber}, r \in DateRanges :
          SuggestSubstitutesOnAborted(staff_number, r[1], r[2])

SpecStorage == InitStorage /\ [][NextStorage]_vars

\* C28: a storage error during one call does not disable the operation: a call
\* during which the storage works runs normally, also after an earlier call of the
\* same operation has failed with a storage error.
C28_WorksAgainAfterFailure ==
    /\ (last.op = "suggestSubstitutes" /\ last.branch # "storageError")
          => last.branch \in {"staffNotFound", "available", "assigned"}
    /\ (last.op = "requestTimeOff" /\ last.result # "StorageError")
          => last.result \in {"Created", "StaffNotFound", "SubstituteNotFound",
                              "SubstituteUnavailable"}

\* C29: whenever requestTimeOff reports a non-success result, a storage failure at
\* the insert, the commit or the read-back included, no TimeOffRequest row of that
\* call is stored.
C29_FailedRequestStoresNothing ==
    (last.op = "requestTimeOff" /\ last.result # "Created")
        => TimeOffRequest = last.pre

\* C30: two concurrent createClass calls whose slots do not conflict (different
\* rooms, or times of one room that do not overlap) both succeed, whatever the
\* interleaving of their setval, nextval and insert steps, and the two new
\* sessions have distinct IDs and distinct Numbers.
C30_BothSucceedDistinctIds ==
    \A p \in Procs : \A q \in Procs :
        (/\ p # q
         /\ proc[p].pc = "done" /\ proc[q].pc = "done"
         /\ \/ proc[p].room # proc[q].room
            \/ ~TimeOverlaps(proc[p].start, proc[p].dur, proc[q].start, proc[q].dur))
            => /\ proc[p].result = "Created" /\ proc[q].result = "Created"
               /\ proc[p].id # proc[q].id
               /\ ClassNumber(proc[p].id) # ClassNumber(proc[q].id)

====
